---- MODULE Spec2Model ----
(***************************************************************************)
(* Device resolution, tensor placement and the Trainer's batch preparation *)
(* (use-gpu notebook), and the classification accuracy helper              *)
(* (classification notebook / classification module), as state machines.   *)
(*                                                                         *)
(* A device handle is a tuple: <<"cpu">> for torch.device('cpu') and       *)
(* <<"cuda", i>> for torch.device(f'cuda:{i}').  A tensor is a heap cell   *)
(* [data, device]; its identity (Python's `is`) is its index in the heap.  *)
(***************************************************************************)
EXTENDS Integers, Sequences, FiniteSets, TLC

\* ------------------------------------------------------------ bounds
\* Largest number of GPUs torch.cuda.device_count() reports.
MaxGpus == 2
\* Largest GPU index / GPU count a caller asks for.
MaxReq == 2
\* Heap capacity: tensors alive in one run.
MaxTensors == 3
\* Largest batch handed to prepare_batch.
MaxBatch == 2

\* Largest number of rows (examples) and of columns (classes) of a score
\* array handed to accuracy, its largest score, and its largest size.
MaxRows == 2
MaxClasses == 2
MaxScore == 1
MaxCells == 4
MaxFrameRows == 4      \* rows of the data frame
MaxBatchSize == 2      \* examples in a validation batch
MaxValBatches == 3     \* batches of the validation data loader
MaxEpochs == 2         \* validation passes

\* Contents of a freshly created tensor (torch.ones).
DataVals == {1}

VARIABLES
    ngpus,    \* torch.cuda.device_count()
    hparams,  \* the hyperparameters the Trainer saved at construction
    gpus,     \* Trainer.gpus, the configured device list
    heap,     \* the tensors created so far; a tensor's identity is its index
    op,       \* name of the last operation executed
    args,     \* its arguments
    ret,      \* its return value
    raised,   \* TRUE iff it raised an exception
    model,    \* the model handed to the Trainer: where it lives, what is set
    board,    \* the progress board: points awaiting a draw, and the line drawn
    inputs    \* the `inputs` data frame of the preprocessing notebook

vars ==
    <<ngpus, hparams, gpus, heap, op, args, ret, raised, model, board, inputs>>

\* What each component leaves alone.
trainerVars == <<model>>
boardVars == <<board>>
frameVars == <<inputs>>

\* ------------------------------------------------------------ helpers
Min(a, b) == IF a <= b THEN a ELSE b

\* ------------------------------------------------------------ devices
cpu == <<"cpu">>

gpu(i) == <<"cuda", i>>

num_gpus == ngpus

\* try_gpu with the comparison off by one
try_gpu_off_by_one(i) == IF num_gpus >= i THEN gpu(i) ELSE cpu

try_gpu(i) == IF num_gpus >= i + 1 THEN gpu(i) ELSE cpu

\* try_all_gpus listing the devices from the last to the first
try_all_gpus_reversed == [k \in 1..num_gpus |-> gpu(num_gpus - k)]

\* [gpu(i) for i in range(num_gpus())]
try_all_gpus == [k \in 1..num_gpus |-> gpu(k - 1)]

IsGpu(d) == Len(d) = 2 /\ d[1] = "cuda"

\* A device that exists on this machine: the CPU or one of the ngpus GPUs.
ValidDevice(d) == d = cpu \/ (IsGpu(d) /\ 0 <= d[2] /\ d[2] < ngpus)

\* ------------------------------------------------------------ Trainer
\* Trainer.__init__ taking the requested count as it is, without min
Trainer_init_untruncated(num_gpus_arg) ==
    [k \in 1..num_gpus_arg |-> gpu(k - 1)]

\* self.gpus = [d2l.gpu(i) for i in range(min(num_gpus, d2l.num_gpus()))]
Trainer_init(num_gpus_arg) ==
    [k \in 1..Min(num_gpus_arg, num_gpus) |-> gpu(k - 1)]

\* ------------------------------------------------------------ tensors
\* A result of an operation on the heap: the reference it returns and the
\* heap after it.
Result(r, h) == [ref |-> r, heap |-> h]

\* torch.ones(..., device=d): a new tensor on device d.
new_tensor(h, v, d) == Result(Len(h) + 1, Append(h, [data |-> v, device |-> d]))

\* to that copies even when x already lives on d
to_always_copy(h, x, d) ==
    Result(Len(h) + 1, Append(h, [data |-> h[x].data, device |-> d]))

\* to that moves x itself instead of copying it
to_in_place(h, x, d) == Result(x, [h EXCEPT ![x].device = d])

\* x.to(d) / x.cuda(i): x itself when it already lives on d, otherwise a new
\* tensor on d holding a copy of x's data; x is left as it is.
to(h, x, d) ==
    IF h[x].device = d
    THEN Result(x, h)
    ELSE Result(Len(h) + 1, Append(h, [data |-> h[x].data, device |-> d]))

\* operands on different devices accepted (one is copied over silently)
same_device_unchecked(h, x, y) == TRUE

\* Whether x + y is defined: both operands must live on the same device.
same_device(h, x, y) == h[x].device = h[y].device

\* x + y for operands on one device: a tensor on that device.  The notebook
\* displays the sum without binding it to a name, so it never joins the heap.
add(h, x, y) == [data |-> h[x].data + h[y].data, device |-> h[x].device]

\* [d2l.to(a, d) for a in batch]: the elements are moved one after another.
RECURSIVE to_each(_, _, _)
to_each(h, batch, d) ==
    IF batch = <<>>
    THEN Result(<<>>, h)
    ELSE LET m == to(h, Head(batch), d)
             rest == to_each(m.heap, Tail(batch), d)
         IN  Result(<<m.ref>> \o rest.ref, rest.heap)

\* prepare_batch moving the batch to the last configured device
prepare_batch_last_device(h, batch) ==
    IF gpus # <<>>
    THEN to_each(h, batch, gpus[Len(gpus)])
    ELSE Result(batch, h)

\* prepare_batch moving the caller's tensors themselves instead of copying
RECURSIVE prepare_batch_in_place(_, _)
prepare_batch_in_place(h, batch) ==
    IF gpus = <<>> \/ batch = <<>>
    THEN Result(batch, h)
    ELSE LET m == to_in_place(h, Head(batch), gpus[1])
             rest == prepare_batch_in_place(m.heap, Tail(batch))
         IN  Result(<<m.ref>> \o rest.ref, rest.heap)

\* prepare_batch copying every element, whether it has to move or not
RECURSIVE prepare_batch_copying(_, _)
prepare_batch_copying(h, batch) ==
    IF gpus = <<>> \/ batch = <<>>
    THEN Result(batch, h)
    ELSE LET m == to_always_copy(h, Head(batch), gpus[1])
             rest == prepare_batch_copying(m.heap, Tail(batch))
         IN  Result(<<m.ref>> \o rest.ref, rest.heap)

\* prepare_batch returning the elements in reverse order
prepare_batch_reversed(h, batch) ==
    IF gpus # <<>>
    THEN to_each(h, [k \in 1..Len(batch) |-> batch[Len(batch) + 1 - k]],
                 gpus[1])
    ELSE Result(batch, h)

\* Trainer.prepare_batch
prepare_batch(h, batch) ==
    IF gpus # <<>>
    THEN to_each(h, batch, gpus[1])
    ELSE Result(batch, h)

\* ------------------------------------------------------------ arrays
\* An array of the accuracy helper: its dtype, its shape and its entries in
\* row-major order.
Array(dt, sh, fl) == [dtype |-> dt, shape |-> sh, flat |-> fl]

Vector(dt, fl) == Array(dt, <<Len(fl)>>, fl)

ndim(t) == Len(t.shape)

RECURSIVE SumSeq(_)
SumSeq(q) == IF q = <<>> THEN 0 ELSE Head(q) + SumSeq(Tail(q))

\* d2l.reshape(t, (-1, last)): rows of `last` entries each.
reshape2(t, last) == Array(t.dtype, <<Len(t.flat) \div last, last>>, t.flat)

\* d2l.reshape(t, -1): one flat axis.
reshape1(t) == Array(t.dtype, <<Len(t.flat)>>, t.flat)

\* Row i (1-based) of a two-dimensional array.
RowOf(t, i) == SubSeq(t.flat, (i - 1) * t.shape[2] + 1, i * t.shape[2])

\* argmax_row returning the last maximal entry
argmax_row_last(row) ==
    (CHOOSE i \in 1..Len(row) :
        /\ \A j \in 1..Len(row) : row[j] <= row[i]
        /\ \A j \in (i + 1)..Len(row) : row[j] < row[i]) - 1

\* The 0-based index of the first maximal entry of a row.
argmax_row(row) ==
    (CHOOSE i \in 1..Len(row) :
        /\ \A j \in 1..Len(row) : row[j] <= row[i]
        /\ \A j \in 1..(i - 1) : row[j] < row[i]) - 1

\* d2l.argmax(t, axis=1) of a two-dimensional array: one index per row.
argmax(t) == Vector("int64", [i \in 1..t.shape[1] |-> argmax_row(RowOf(t, i))])

\* d2l.astype(t, dtype); every entry modelled here is a whole number, which
\* each dtype involved represents exactly.
astype(t, dt) == Array(dt, t.shape, t.flat)

\* Whether the shapes of a (one- or two-dimensional) and b (one-dimensional)
\* broadcast: the trailing axes agree or one of them has length 1.
broadcastable(a, b) ==
    LET la == a.shape[ndim(a)]
        lb == b.shape[1]
    IN  la = lb \/ la = 1 \/ lb = 1

\* a == b under broadcasting, for broadcastable shapes.
equal(a, b) ==
    LET la == a.shape[ndim(a)]
        lb == b.shape[1]
        w == IF la = 1 THEN lb ELSE la
        rows == IF ndim(a) = 2 THEN a.shape[1] ELSE 1
        A(i, j) == a.flat[(i - 1) * la + (IF la = 1 THEN 1 ELSE j)]
        B(j) == b.flat[IF lb = 1 THEN 1 ELSE j]
        cell(k) == LET i == ((k - 1) \div w) + 1
                       j == ((k - 1) % w) + 1
                   IN  IF A(i, j) = B(j) THEN 1 ELSE 0
    IN  Array("bool",
              IF ndim(a) = 2 THEN <<rows, w>> ELSE <<w>>,
              [k \in 1..(rows * w) |-> cell(k)])

\* d2l.reduce_mean(t): the sum of the entries over their number, kept as a
\* fraction.
reduce_mean(t) == [num |-> SumSeq(t.flat), den |-> Len(t.flat)]

\* The outcome of a call: a value, or an exception.
Returned(v) == [raised |-> FALSE, value |-> v]
Raised == [raised |-> TRUE, value |-> <<>>]

\* Classifier.accuracy reducing by the sum, not the mean
Classifier_accuracy_sum(Y_hat, Y, averaged) ==
    LET Y_hat2 == reshape2(Y_hat, Y_hat.shape[ndim(Y_hat)])
        preds == astype(argmax(Y_hat2), Y.dtype)
        labels == reshape1(Y)
    IN  IF ~broadcastable(preds, labels)
        THEN Raised
        ELSE LET compare == astype(equal(preds, labels), "float32")
             IN  Returned(IF averaged
                          THEN [num |-> SumSeq(compare.flat), den |-> 1]
                          ELSE compare)

\* Classifier.accuracy marking the mismatches, not the matches
Classifier_accuracy_mismatch(Y_hat, Y, averaged) ==
    LET Y_hat2 == reshape2(Y_hat, Y_hat.shape[ndim(Y_hat)])
        preds == astype(argmax(Y_hat2), Y.dtype)
        labels == reshape1(Y)
    IN  IF ~broadcastable(preds, labels)
        THEN Raised
        ELSE LET eq == equal(preds, labels)
                 compare == Array("float32", eq.shape,
                                  [k \in 1..Len(eq.flat) |-> 1 - eq.flat[k]])
             IN  Returned(IF averaged THEN reduce_mean(compare) ELSE compare)

\* Classifier.accuracy(Y_hat, Y, averaged) of the classification notebook
Classifier_accuracy(Y_hat, Y, averaged) ==
    LET Y_hat2 == reshape2(Y_hat, Y_hat.shape[ndim(Y_hat)])
        preds == astype(argmax(Y_hat2), Y.dtype)
        labels == reshape1(Y)
    IN  IF ~broadcastable(preds, labels)
        THEN Raised
        ELSE LET compare == astype(equal(preds, labels), "float32")
             IN  Returned(IF averaged THEN reduce_mean(compare) ELSE compare)

\* Classification.accuracy(y_hat, y) of the classification module
Classification_accuracy(y_hat, y) ==
    LET y_hat1 == IF ndim(y_hat) > 1 /\ y_hat.shape[2] > 1
                  THEN argmax(y_hat)
                  ELSE y_hat
        cast == astype(y_hat1, y.dtype)
    IN  IF ~broadcastable(cast, y)
        THEN Raised
        ELSE Returned(reduce_mean(astype(equal(cast, y), "float32")))

\* ------------------------------------------------------------ state machine
\* Where a notebook cell places data: the default device (CPU), try_gpu()
\* or try_gpu(1).
Placements == {cpu, try_gpu(0), try_gpu(1)}

Batches == UNION {[1..n -> 1..Len(heap)] : n \in 0..MaxBatch}

\* Trainer(max_epochs): num_gpus defaults to 0.
DefaultHparams == [num_gpus |-> 0]

\* A model as built: on the CPU, not yet handed to a trainer.
NewModel == [device |-> cpu, trainer |-> FALSE, xlim |-> "unset"]

\* A progress board nothing was drawn on.
NewBoard == [points |-> <<>>, line |-> <<>>]

\* No data frame loaded.
NoFrame == <<>>

\* The components a specification does not exercise, at rest.
Idle(m, b, f) ==
    /\ m => model = NewModel
    /\ b => board = NewBoard
    /\ f => inputs = NoFrame

Init ==
    /\ ngpus \in 0..MaxGpus
    /\ hparams = DefaultHparams
    /\ gpus = <<>>
    /\ heap = <<>>
    /\ op = "start"
    /\ args = <<>>
    /\ ret = <<>>
    /\ raised = FALSE
    /\ Idle(TRUE, TRUE, TRUE)

\* try_gpu(i), for any integer i the caller passes
TryGpu(i) ==
    /\ op' = "try_gpu"
    /\ args' = <<i>>
    /\ ret' = try_gpu(i)
    /\ raised' = FALSE
    /\ UNCHANGED <<ngpus, hparams, gpus, heap>>

TryAllGpus ==
    /\ op' = "try_all_gpus"
    /\ args' = <<>>
    /\ ret' = try_all_gpus
    /\ raised' = FALSE
    /\ UNCHANGED <<ngpus, hparams, gpus, heap>>

\* trainer = d2l.Trainer(max_epochs, num_gpus=r)
TrainerInit(r) ==
    /\ hparams' = [num_gpus |-> r]
    /\ gpus' = Trainer_init(r)
    /\ op' = "Trainer"
    /\ args' = <<r>>
    /\ ret' = <<>>
    /\ raised' = FALSE
    /\ UNCHANGED <<ngpus, heap>>

\* X = torch.ones(2, 3, device=try_gpu(i))
NewTensor(v, d) ==
    /\ Len(heap) < MaxTensors
    /\ LET r == new_tensor(heap, v, d)
       IN  /\ heap' = r.heap
           /\ ret' = r.ref
    /\ op' = "tensor"
    /\ args' = <<v, d>>
    /\ raised' = FALSE
    /\ UNCHANGED <<ngpus, hparams, gpus>>

\* Z = Y.to(d)
To(x, d) ==
    /\ LET r == to(heap, x, d)
       IN  /\ Len(r.heap) <= MaxTensors
           /\ heap' = r.heap
           /\ ret' = r.ref
    /\ op' = "to"
    /\ args' = <<x, d>>
    /\ raised' = FALSE
    /\ UNCHANGED <<ngpus, hparams, gpus>>

\* X + Y
Add(x, y) ==
    /\ op' = "add"
    /\ args' = <<x, y>>
    /\ IF same_device(heap, x, y)
       THEN /\ ret' = add(heap, x, y)
            /\ raised' = FALSE
       ELSE /\ ret' = <<>>
            /\ raised' = TRUE
    /\ UNCHANGED <<ngpus, hparams, gpus, heap>>

\* batch = trainer.prepare_batch(batch)
PrepareBatch(batch) ==
    /\ LET r == prepare_batch(heap, batch)
       IN  /\ Len(r.heap) <= MaxTensors
           /\ heap' = r.heap
           /\ ret' = r.ref
    /\ op' = "prepare_batch"
    /\ args' = <<batch>>
    /\ raised' = FALSE
    /\ UNCHANGED <<ngpus, hparams, gpus>>

Next ==
    /\ \/ \E i \in -1..MaxReq : TryGpu(i)
       \/ TryAllGpus
       \/ \E r \in 0..MaxReq : TrainerInit(r)
       \/ \E v \in DataVals, d \in Placements : NewTensor(v, d)
       \/ \E x \in 1..Len(heap), d \in Placements : To(x, d)
       \/ \E x, y \in 1..Len(heap) : Add(x, y)
       \/ \E batch \in Batches : PrepareBatch(batch)
    /\ UNCHANGED <<trainerVars, boardVars, frameVars>>

Spec == Init /\ [][Next]_vars

\* ------------------------------------------------------------ accuracy calls
\* Every sequence over S of length n.
Tuples(S, n) == [1..n -> S]

\* The shapes (rows, classes) of the score arrays drawn.
Shapes ==
    {sh \in (1..MaxRows) \X (1..MaxClasses) : sh[1] * sh[2] <= MaxCells}

\* Score arrays: n rows of c class scores each.
ScoreArrays ==
    UNION {{Array("float32", sh, fl) :
              fl \in Tuples(0..MaxScore, sh[1] * sh[2])} : sh \in Shapes}

\* Flat sequences of hard labels (predictions or ground truth).
LabelVectors ==
    UNION {{Vector("int64", fl) : fl \in Tuples(0..(MaxClasses - 1), n)} :
           n \in 1..MaxRows}

\* The labels of the worked example, y = [0, 1, 1, 0], and the indices
\* [0, 1, 0, 0] at which the rows of its scores have their maxima.
ExampleY == Vector("int64", <<0, 1, 1, 0>>)
ExampleMaxima == <<0, 1, 0, 0>>

\* Row `row` has its maximum at 0-based index k (and not before).
MaximumAt(row, k) ==
    /\ k + 1 \in 1..Len(row)
    /\ \A j \in 1..Len(row) : row[j] <= row[k + 1]
    /\ \A j \in 1..k : row[j] < row[k + 1]

\* The score arrays of the worked example, with c >= 2 classes.
ExampleScores ==
    UNION {{Array("float32", <<Len(ExampleMaxima), c>>, fl) :
              fl \in {f \in Tuples(0..MaxScore, Len(ExampleMaxima) * c) :
                         \A i \in 1..Len(ExampleMaxima) :
                            MaximumAt(SubSeq(f, (i - 1) * c + 1, i * c),
                                      ExampleMaxima[i])}} :
           c \in 2..MaxClasses}

\* The arguments of one call: predictions and labels.
InitAcc ==
    /\ ngpus = 0
    /\ hparams = DefaultHparams
    /\ gpus = <<>>
    /\ heap = <<>>
    /\ op = "start"
    /\ \/ args \in (ScoreArrays \cup LabelVectors) \X LabelVectors
       \/ args \in ExampleScores \X {ExampleY}
    /\ ret = <<>>
    /\ raised = FALSE
    /\ Idle(TRUE, TRUE, TRUE)

\* self.accuracy(Y_hat, Y, averaged) on a Classifier
ClassifierAccuracy(averaged) ==
    /\ op = "start"
    /\ LET r == Classifier_accuracy(args[1], args[2], averaged)
       IN  /\ ret' = r.value
           /\ raised' = r.raised
    /\ op' = "Classifier.accuracy"
    /\ args' = <<args[1], args[2], averaged>>
    /\ UNCHANGED <<ngpus, hparams, gpus, heap>>

\* self.accuracy(y_hat, y) on a Classification module
ClassificationAccuracy ==
    /\ op = "start"
    /\ LET r == Classification_accuracy(args[1], args[2])
       IN  /\ ret' = r.value
           /\ raised' = r.raised
    /\ op' = "Classification.accuracy"
    /\ UNCHANGED <<ngpus, hparams, gpus, heap, args>>

NextAcc ==
    /\ \/ \E averaged \in BOOLEAN : ClassifierAccuracy(averaged)
       \/ ClassificationAccuracy
    /\ UNCHANGED <<trainerVars, boardVars, frameVars>>

SpecAcc == InitAcc /\ [][NextAcc]_vars

\* ------------------------------------------------------------ one trainer
\* prepare_model leaving the model where it is
prepare_model_unmoved(m) == [m EXCEPT !.trainer = TRUE, !.xlim = "max_epochs"]

\* prepare_model resolving the device anew instead of using self.gpus
prepare_model_resolving(m) ==
    [m EXCEPT !.trainer = TRUE,
              !.xlim = "max_epochs",
              !.device = IF Trainer_init(hparams.num_gpus) # <<>>
                         THEN Trainer_init(hparams.num_gpus)[1]
                         ELSE @]

\* Trainer.prepare_model: the model and the trainer refer to each other
\* (model.trainer = self, self.model = model), the board's x-axis spans the
\* epochs, and the model is moved (in place) to gpus[0] if there is one.
prepare_model(m) ==
    [m EXCEPT !.trainer = TRUE,
              !.xlim = "max_epochs",
              !.device = IF gpus # <<>> THEN gpus[1] ELSE @]

\* The devices the process holds data on: those of the tensors, of the
\* model, and the ones the trainer is configured with.
DevicesInUse ==
    {heap[i].device : i \in 1..Len(heap)}
        \cup {gpus[k] : k \in 1..Len(gpus)}
        \cup {model.device}

InitTrainer ==
    /\ Init
    /\ Idle(FALSE, TRUE, TRUE)

\* trainer = d2l.Trainer(max_epochs, num_gpus=r): the one construction
Construct(r) ==
    /\ op = "start"
    /\ TrainerInit(r)
    /\ UNCHANGED model

\* One element of a batch, created by the caller on the device d: the
\* default device or try_gpu().
Load(v, d) ==
    /\ op # "start"
    /\ NewTensor(v, d)
    /\ UNCHANGED model

\* net = net.to(device=d): the caller places the model before handing it
\* to the trainer.
ModelTo(d) ==
    /\ op # "start"
    /\ ~model.trainer
    /\ model.device # d
    /\ model' = [model EXCEPT !.device = d]
    /\ op' = "model.to"
    /\ args' = <<d>>
    /\ ret' = <<>>
    /\ raised' = FALSE
    /\ UNCHANGED <<ngpus, hparams, gpus, heap>>

\* trainer.prepare_batch(batch)
TrainerPrepareBatch(batch) ==
    /\ op # "start"
    /\ PrepareBatch(batch)
    /\ UNCHANGED model

\* trainer.prepare_model(model)
PrepareModel ==
    /\ op # "start"
    /\ model' = prepare_model(model)
    /\ op' = "prepare_model"
    /\ args' = <<>>
    /\ ret' = <<>>
    /\ raised' = FALSE
    /\ UNCHANGED <<ngpus, hparams, gpus, heap>>

\* The number of GPUs d2l.num_gpus() reports becomes n; a device the
\* process holds data on does not go away.
DevicesChange(n) ==
    /\ op # "start"
    /\ n # ngpus
    /\ \A d \in DevicesInUse : IsGpu(d) => d[2] < n
    /\ ngpus' = n
    /\ op' = "devices_change"
    /\ args' = <<n>>
    /\ ret' = <<>>
    /\ raised' = FALSE
    /\ UNCHANGED <<hparams, gpus, heap, model>>

NextTrainer ==
    /\ \/ \E r \in 0..MaxReq : Construct(r)
       \/ \E v \in DataVals, d \in {cpu, try_gpu(0)} : Load(v, d)
       \/ \E d \in Placements : ModelTo(d)
       \/ \E batch \in Batches : TrainerPrepareBatch(batch)
       \/ PrepareModel
       \/ \E n \in 0..MaxGpus : DevicesChange(n)
    /\ UNCHANGED <<boardVars, frameVars>>

SpecTrainer == InitTrainer /\ [][NextTrainer]_vars

\* ------------------------------------------------------------ one batch
\* What a tensor may hold: the content of torch.ones, or another one.
Contents == {1, 2}

\* The tensors a caller may have built before preparing a batch: each with
\* its content, on the default device or on try_gpu().
CallerHeaps ==
    UNION {[1..n -> [data : Contents, device : {cpu, try_gpu(0)}]] :
           n \in 0..MaxBatch}

\* A trainer constructed with any request, and the caller's tensors.
InitBatch ==
    /\ ngpus \in 0..MaxGpus
    /\ hparams \in [num_gpus : 0..MaxReq]
    /\ gpus = Trainer_init(hparams.num_gpus)
    /\ heap \in CallerHeaps
    /\ op = "start"
    /\ args = <<>>
    /\ ret = <<>>
    /\ raised = FALSE
    /\ Idle(TRUE, TRUE, TRUE)

\* One call trainer.prepare_batch(batch)
PrepareOneBatch(batch) ==
    /\ op = "start"
    /\ PrepareBatch(batch)

NextBatchCall ==
    /\ \E batch \in Batches : PrepareOneBatch(batch)
    /\ UNCHANGED <<trainerVars, boardVars, frameVars>>

SpecBatch == InitBatch /\ [][NextBatchCall]_vars

\* ------------------------------------------------------------ data frame
\* A cell of a data frame is a tuple: <<>> for a missing value (NaN), <<n, d>>
\* for the number n/d, <<c>> for the category c.  Numbers are kept as exact
\* fractions in lowest terms.
NaN == <<>>
IsNumber(cell) == Len(cell) = 2
IsCategory(cell) == Len(cell) = 1

RECURSIVE Gcd(_, _)
Gcd(a, b) == IF b = 0 THEN a ELSE Gcd(b, a % b)

Normal(r) == LET g == Gcd(r[1], r[2]) IN <<r[1] \div g, r[2] \div g>>
Number(n) == <<n, 1>>
RatAdd(a, b) == Normal(<<a[1] * b[2] + b[1] * a[2], a[2] * b[2]>>)
RatDiv(a, n) == Normal(<<a[1], a[2] * n>>)

RECURSIVE SumRat(_)
SumRat(q) == IF q = <<>> THEN Number(0) ELSE RatAdd(Head(q), SumRat(Tail(q)))

\* A data frame is its columns in order, each a name and one cell per row.
Column(name, cells) == [name |-> name, cells |-> cells]

\* read_csv gives a column holding a string the object dtype; a column of
\* numbers and missing values only is a float column.
IsObject(col) == \E i \in 1..Len(col.cells) : IsCategory(col.cells[i])

\* The categories a column may hold, in sorted order.
Categories == <<"Slate">>

\* The indicator column <name>_<cat>: 1 where the cell is cat, 0 elsewhere.
indicator(col, cat) ==
    Column(col.name \o <<cat>>,
           [i \in 1..Len(col.cells) |->
               IF col.cells[i] = <<cat>> THEN Number(1) ELSE Number(0)])

\* The indicator column <name>_nan: 1 where the cell is missing.
nan_indicator(col) ==
    Column(col.name \o <<"nan">>,
           [i \in 1..Len(col.cells) |->
               IF col.cells[i] = NaN THEN Number(1) ELSE Number(0)])

\* The indicator columns of the categories present in col, in sorted
\* order, from the k-th category on.
RECURSIVE indicators(_, _)
indicators(col, k) ==
    IF k > Len(Categories)
    THEN <<>>
    ELSE (IF \E i \in 1..Len(col.cells) : col.cells[i] = <<Categories[k]>>
          THEN <<indicator(col, Categories[k])>>
          ELSE <<>>) \o indicators(col, k + 1)

\* The columns that replace the object columns among cols.
RECURSIVE encode(_, _)
encode(cols, dummy_na) ==
    IF cols = <<>>
    THEN <<>>
    ELSE (IF IsObject(Head(cols))
          THEN indicators(Head(cols), 1)
                   \o (IF dummy_na THEN <<nan_indicator(Head(cols))>> ELSE <<>>)
          ELSE <<>>) \o encode(Tail(cols), dummy_na)

\* pd.get_dummies(df, dummy_na): the numeric columns as they are, followed
\* by the indicator columns of every object column.
get_dummies(df, dummy_na) ==
    SelectSeq(df, LAMBDA col : ~IsObject(col)) \o encode(df, dummy_na)

\* Series.mean(): the mean of the values present, NaN if there is none.
col_mean(col) ==
    LET present == SelectSeq(col.cells, IsNumber)
    IN  IF present = <<>>
        THEN NaN
        ELSE RatDiv(SumRat(present), Len(present))

\* df.mean(): one mean per column.
mean(df) == [j \in 1..Len(df) |-> col_mean(df[j])]

\* df.fillna(value): every missing cell of column j becomes value[j].
fillna(df, value) ==
    [j \in 1..Len(df) |->
        Column(df[j].name,
               [i \in 1..Len(df[j].cells) |->
                   IF df[j].cells[i] = NaN THEN value[j] ELSE df[j].cells[i]])]

\* the encoding without the indicator of missing values
dummy_encode_no_na(df) == get_dummies(df, FALSE)

\* inputs = pd.get_dummies(inputs, dummy_na=True)
dummy_encode(df) == get_dummies(df, TRUE)

\* the imputation overwriting every cell of a column with the mean
impute_overwrite(df) ==
    [j \in 1..Len(df) |->
        Column(df[j].name, [i \in 1..Len(df[j].cells) |-> col_mean(df[j])])]

\* the imputation filling in 0 instead of the mean
impute_zero(df) == fillna(df, [j \in 1..Len(df) |-> Number(0)])

\* inputs = inputs.fillna(inputs.mean())
impute(df) == fillna(df, mean(df))

\* The values of the NumRooms and RoofType columns in the CSV file.
RoomVals == {NaN, Number(2), Number(4)}
RoofVals == {NaN, <<"Slate">>}

\* inputs = data.iloc[:, 0:2]: the first two columns of the file read.
InputFrames ==
    UNION {{<<Column(<<"NumRooms">>, rooms), Column(<<"RoofType">>, roofs)>> :
              rooms \in Tuples(RoomVals, n), roofs \in Tuples(RoofVals, n)} :
           n \in 1..MaxFrameRows}

InitFrame ==
    /\ ngpus = 0
    /\ hparams = DefaultHparams
    /\ gpus = <<>>
    /\ heap = <<>>
    /\ op = "start"
    /\ args = <<>>
    /\ ret = <<>>
    /\ raised = FALSE
    /\ Idle(TRUE, TRUE, FALSE)
    /\ inputs \in InputFrames

GetDummies ==
    /\ op = "start"
    /\ inputs' = dummy_encode(inputs)
    /\ op' = "get_dummies"
    /\ args' = <<inputs>>
    /\ ret' = <<>>
    /\ raised' = FALSE

Fillna ==
    /\ op = "get_dummies"
    /\ inputs' = impute(inputs)
    /\ op' = "fillna"
    /\ args' = <<inputs>>
    /\ ret' = <<>>
    /\ raised' = FALSE

NextFrame ==
    /\ \/ GetDummies
       \/ Fillna
    /\ UNCHANGED <<ngpus, hparams, gpus, heap, trainerVars, boardVars>>

SpecFrame == InitFrame /\ [][NextFrame]_vars

\* ------------------------------------------------------------ validation
\* The value of d2l.reduce_mean as a fraction in lowest terms.
Frac(r) == Normal(<<r.num, r.den>>)

\* ProgressBoard.draw(x, y, label, every_n) for one label: y joins the
\* points waiting; once every_n of them wait, their mean is appended to the
\* line drawn and they are cleared.
draw(b, y, every_n) ==
    LET points == Append(b.points, y)
    IN  IF Len(points) # every_n
        THEN [b EXCEPT !.points = points]
        ELSE [points |-> <<>>,
              line |-> Append(b.line, RatDiv(SumRat(points), Len(points)))]

\* Module.plot(key, value, train=False): one point per validation pass,
\* drawn from num_val_batches values.
plot(b, value, num_val_batches) == draw(b, value, num_val_batches)

\* Classifier.validation_step, accuracy part:
\* self.plot('acc', self.accuracy(Y_hat, batch[-1]), train=False)
Classifier_validation_step(b, batch, num_val_batches) ==
    plot(b, Frac(Classifier_accuracy(batch[1], batch[2], TRUE).value),
         num_val_batches)

\* validation_step drawing after every batch
Classification_validation_step_each(b, batch, num_val_batches) ==
    draw(b, Frac(Classification_accuracy(batch[1], batch[2]).value), 1)

\* Classification.validation_step, accuracy part:
\* self.board.draw(epoch + 1, self.accuracy(y_hat, y), 'val_acc',
\*                 every_n=self.trainer.num_val_batches)
Classification_validation_step(b, batch, num_val_batches) ==
    draw(b, Frac(Classification_accuracy(batch[1], batch[2]).value),
         num_val_batches)

\* y_hat = self(X) of a model that scores class 1 highest on every example.
Scores(n) == Array("float32", <<n, 2>>, [k \in 1..(2 * n) |-> (k + 1) % 2])

\* A validation batch of n examples: the model's scores and the labels.
ValBatches(n) == {<<Scores(n), Vector("int64", fl)>> : fl \in Tuples(0..1, n)}

\* What a data loader of batch size b yields in nb batches: full batches,
\* the last one possibly shorter.
Loaders(b, nb) ==
    {ld \in UNION {[1..nb -> UNION {ValBatches(n) : n \in 1..b}]} :
        /\ \A i \in 1..(nb - 1) : ld[i][1].shape[1] = b}

ValLoaders ==
    UNION {Loaders(b, nb) : b \in 1..MaxBatchSize, nb \in 1..MaxValBatches}

InitVal ==
    /\ ngpus = 0
    /\ hparams = DefaultHparams
    /\ gpus = <<>>
    /\ heap = <<>>
    /\ op = "start"
    /\ args \in {"Classifier", "Classification"} \X ValLoaders
    /\ ret = <<>>
    /\ raised = FALSE
    /\ Idle(TRUE, TRUE, TRUE)

\* The batch the validation loop hands over next.
NextBatch == args[2][Len(board.points) + 1]

\* model.validation_step(batch) on a Classifier, inside the validation loop
ClassifierValidationStep ==
    /\ args[1] = "Classifier"
    /\ Len(board.line) < MaxEpochs
    /\ board' = Classifier_validation_step(board, NextBatch, Len(args[2]))
    /\ op' = "validation_step"
    /\ ret' = <<>>
    /\ raised' = FALSE
    /\ UNCHANGED args

\* model.validation_step(batch) on a Classification module
ClassificationValidationStep ==
    /\ args[1] = "Classification"
    /\ Len(board.line) < MaxEpochs
    /\ board' = Classification_validation_step(board, NextBatch, Len(args[2]))
    /\ op' = "validation_step"
    /\ ret' = <<>>
    /\ raised' = FALSE
    /\ UNCHANGED args

NextVal ==
    /\ \/ ClassifierValidationStep
       \/ ClassificationValidationStep
    /\ UNCHANGED <<ngpus, hparams, gpus, heap, trainerVars, frameVars>>

SpecVal == InitVal /\ [][NextVal]_vars

\* ------------------------------------------------------------ properties
\* C1: for every i >= 0, try_gpu(i) returns gpu(i) if and only if
\* i < num_gpus() at the call, and the CPU handle otherwise.
C1_TryGpuIff ==
    (op = "try_gpu" /\ args[1] >= 0) =>
        /\ ~raised
        /\ (ret = gpu(args[1])) <=> (args[1] < ngpus)
        /\ (ret = cpu) <=> ~(args[1] < ngpus)

C1_Witness == op = "try_gpu" /\ ngpus = 2 /\ args[1] = 1 /\ ret = gpu(1)

\* C2: with no GPU available, try_all_gpus() returns exactly [cpu()], so
\* its result is never empty.
C2_NoGpuGivesCpu ==
    (op = "try_all_gpus" /\ ngpus = 0) => (ret = <<cpu>> /\ ret # <<>>)

\* C3: with n > 0 GPUs, try_all_gpus() returns exactly n handles, the k-th
\* (0-indexed) being gpu(k): no duplicates, strictly increasing indices.
C3_AllGpusInOrder ==
    (op = "try_all_gpus" /\ ngpus > 0) =>
        /\ ~raised
        /\ Len(ret) = ngpus
        /\ \A k \in 1..Len(ret) : ret[k] = gpu(k - 1)
        /\ \A j, k \in 1..Len(ret) : j < k => ret[j][2] < ret[k][2]

C3_Witness == op = "try_all_gpus" /\ ngpus = 2 /\ Len(ret) = 2

\* C4: for every integer i, negative ones included, try_gpu(i) returns
\* without an error a device valid at that time: the CPU or GPU(k) with
\* 0 <= k < num_gpus().
C4_TryGpuValid == op = "try_gpu" => (~raised /\ ValidDevice(ret))

\* C5: with a non-empty device list every element of the batch returned by
\* prepare_batch lives on gpus[0], whatever device it was on before; with
\* an empty list the batch is returned unchanged and nothing moves.
C5_PrepareBatch ==
    [][op' = "prepare_batch" =>
        LET batch == args'[1]
        IN  /\ ~raised'
            /\ IF gpus # <<>>
               THEN /\ Len(ret') = Len(batch)
                    /\ \A k \in 1..Len(ret') : heap'[ret'[k]].device = gpus[1]
               ELSE /\ ret' = batch
                    /\ heap' = heap]_vars

\* A two-element batch, one element on the last configured device and one
\* already on the first, prepared for a trainer with two devices.
C5_Witness ==
    /\ op = "prepare_batch"
    /\ Len(gpus) = 2
    /\ Len(args[1]) = 2
    /\ heap[args[1][1]].device = gpu(1)
    /\ heap[args[1][2]].device = gpu(0)
    /\ ret[1] # args[1][1]
    /\ \A k \in 1..2 : heap[ret[k]].device = gpu(0)

\* C6: adding two values on different devices raises an error and copies
\* nothing; adding two values on one device succeeds and the sum lives on
\* that device.
C6_AddSameDevice ==
    [][op' = "add" =>
        LET x == args'[1]
            y == args'[2]
        IN  /\ heap' = heap
            /\ IF heap[x].device # heap[y].device
               THEN raised'
               ELSE /\ ~raised'
                    /\ ret'.device = heap[x].device
                    /\ ret'.device = heap[y].device]_vars

C6_Witness ==
    /\ op = "add"
    /\ raised
    /\ heap[args[1]].device = gpu(0)
    /\ heap[args[2]].device = cpu

\* C7: relocating a value to the device it already lives on returns the
\* very same value and allocates nothing, for a single to(...) and for
\* each element of a prepared batch.
C7_RelocateSameDevice ==
    [][/\ (op' = "to" /\ heap[args'[1]].device = args'[2]) =>
            (ret' = args'[1] /\ heap' = heap)
       /\ (op' = "prepare_batch" /\ gpus # <<>>) =>
            \A k \in 1..Len(args'[1]) :
                heap[args'[1][k]].device = gpus[1] => ret'[k] = args'[1][k]
      ]_vars

C7_Witness ==
    /\ op = "to"
    /\ heap[args[1]].device = gpu(0)
    /\ args[2] = gpu(0)
    /\ ret = args[1]

\* C8: relocating a value to another device returns a new value with the
\* same content, tagged with the destination; the original keeps its
\* content and its device.
C8_RelocateOtherDevice ==
    [][(op' = "to" /\ heap[args'[1]].device # args'[2]) =>
        /\ ~raised'
        /\ ret' \notin 1..Len(heap)
        /\ ret' \in 1..Len(heap')
        /\ heap'[ret'].data = heap[args'[1]].data
        /\ heap'[ret'].device = args'[2]
        /\ \A i \in 1..Len(heap) : heap'[i] = heap[i]]_vars

C8_Witness ==
    /\ op = "to"
    /\ ret # args[1]
    /\ heap[args[1]].device = cpu
    /\ heap[ret].device = gpu(0)

\* The hard prediction of row k equals label k.
Correct(Y_hat, Y, k) == MaximumAt(RowOf(Y_hat, k), Y.flat[k])

\* C9: on multi-class scores (two axes, more than one class) accuracy
\* predicts for each row the index of the row's maximum, the lowest such
\* index when several entries equal the maximum.
C9_ArgmaxFirstMaximum ==
    (/\ op \in {"Classifier.accuracy", "Classification.accuracy"}
     /\ ndim(args[1]) = 2
     /\ args[1].shape[2] > 1
     /\ Len(args[2].flat) = args[1].shape[1]) =>
        LET n == args[1].shape[1]
            hits == {k \in 1..n : Correct(args[1], args[2], k)}
        IN  /\ ~raised
            /\ IF op = "Classifier.accuracy" /\ ~args[3]
               THEN /\ Len(ret.flat) = n
                    /\ \A k \in 1..n : (ret.flat[k] = 1) <=> (k \in hits)
               ELSE /\ ret.num = Cardinality(hits)
                    /\ ret.den = n

\* A row whose two scores tie, counted as a prediction of class 0.
C9_Witness ==
    /\ op = "Classifier.accuracy"
    /\ ~args[3]
    /\ args[1].shape = <<2, 2>>
    /\ args[2].shape = <<2>>
    /\ RowOf(args[1], 2) = <<1, 1>>
    /\ args[2].flat[2] = 0
    /\ ret.flat[2] = 1

\* The inputs of the worked example: labels [0, 1, 1, 0] and scores whose
\* rows have their maxima at [0, 1, 0, 0].
ExampleCall ==
    /\ op = "Classifier.accuracy"
    /\ args[2] = ExampleY
    /\ ndim(args[1]) = 2
    /\ args[1].shape[1] = Len(ExampleMaxima)
    /\ \A i \in 1..Len(ExampleMaxima) :
          MaximumAt(RowOf(args[1], i), ExampleMaxima[i])

\* C10 as stated: on the worked example the accuracy is 0.5 (2 of 4) and
\* the unreduced sequence is [1, 0, 0, 1].
C10_ExampleAsStated ==
    ExampleCall =>
        /\ ~raised
        /\ IF args[3]
           THEN 2 * ret.num = ret.den
           ELSE ret.flat = <<1, 0, 0, 1>>

\* C10 (amended): on the worked example the accuracy is 0.75 (3 of 4
\* correct) and the unreduced sequence is [1, 1, 0, 1], order preserved.
C10_Example ==
    ExampleCall =>
        /\ ~raised
        /\ IF args[3]
           THEN ret.num = 3 /\ ret.den = 4
           ELSE ret.flat = <<1, 1, 0, 1>>

C10_Witness == ExampleCall /\ args[3] /\ ret.num = 3 /\ ret.den = 4

C12_FlatHardLabels ==
    (/\ op \in {"Classifier.accuracy", "Classification.accuracy"}
     /\ ndim(args[1]) = 1
     /\ Len(args[1].flat) = Len(args[2].flat)) =>
        LET n == Len(args[2].flat)
            hit(k) == IF args[1].flat[k] = args[2].flat[k] THEN 1 ELSE 0
            matches == Cardinality({k \in 1..n : hit(k) = 1})
        IN  /\ ~raised
            /\ IF op = "Classifier.accuracy" /\ ~args[3]
               THEN /\ ret.shape = <<n>>
                    /\ \A k \in 1..n : ret.flat[k] = hit(k)
               ELSE /\ ret.num * n = matches * ret.den

\* The number of predictions a call was given: the length of the first axis.
NumPredictions(Y_hat) == Y_hat.shape[1]

\* C13: accuracy raises an error whenever the number of predictions differs
\* from the number of labels, and only then.
C13_ErrorIffLengthsDiffer ==
    op \in {"Classifier.accuracy", "Classification.accuracy"} =>
        (raised <=> NumPredictions(args[1]) # Len(args[2].flat))

\* C16: prepare_batch has no side effect beyond the batch it returns: every
\* tensor alive before the call, the elements of the caller's batch among
\* them, keeps its content and its device, and the trainer's device list,
\* its model and the machine's GPUs are as before.
C16_PrepareBatchFrame ==
    [][op' = "prepare_batch" =>
        /\ Len(heap') >= Len(heap)
        /\ \A i \in 1..Len(heap) : heap'[i] = heap[i]
        /\ \A k \in 1..Len(args'[1]) : heap'[args'[1][k]] = heap[args'[1][k]]
        /\ gpus' = gpus
        /\ hparams' = hparams
        /\ model' = model
        /\ ngpus' = ngpus]_vars

\* A CPU tensor was prepared for a GPU trainer and is still on the CPU.
C16_Witness ==
    /\ op = "prepare_batch"
    /\ gpus # <<>>
    /\ Len(args[1]) >= 1
    /\ heap[args[1][1]].device = cpu
    /\ heap[ret[1]].device = gpu(0)

\* C20: Trainer(num_gpus=r) with r >= 0 on a machine with a GPUs does not
\* fail and configures exactly gpu(0), ..., gpu(min(r, a) - 1) in increasing
\* order: a request beyond a is truncated, every configured device exists,
\* and r = 0 or a = 0 gives the empty list.
C20_TrainerDevices ==
    (op = "Trainer" /\ args[1] >= 0) =>
        LET r == args[1]
            a == ngpus
            n == IF r <= a THEN r ELSE a
        IN  /\ ~raised
            /\ Len(gpus) = n
            /\ \A k \in 1..n : gpus[k] = gpu(k - 1)
            /\ \A k \in 1..Len(gpus) : IsGpu(gpus[k]) /\ gpus[k][2] < a
            /\ (r = 0 \/ a = 0) => gpus = <<>>

\* Two GPUs requested where one exists: one device configured.
C20_Witness ==
    /\ op = "Trainer"
    /\ args[1] = 2
    /\ ngpus = 1
    /\ gpus = <<gpu(0)>>

\* The device a trainer's calls move data to: gpus[0], or none.
Target == IF gpus # <<>> THEN gpus[1] ELSE <<"none">>

\* C18: the device list computed in Trainer.__init__ is changed by no later
\* prepare_batch or prepare_model call, nor by a change of the number of
\* GPUs, so every such call of the trainer moves its data to the same
\* device (or, with an empty list, moves nothing).
C18_DevicesResolvedOnce ==
    [][op # "start" =>
        /\ gpus' = gpus
        /\ Target' = Target
        /\ op' = "prepare_batch" =>
              IF Target = <<"none">>
              THEN ret' = args'[1] /\ heap' = heap
              ELSE \A k \in 1..Len(ret') : heap'[ret'[k]].device = Target
        /\ op' = "prepare_model" =>
              model'.device = IF Target = <<"none">>
                              THEN model.device
                              ELSE Target]_vars

\* Two GPUs were requested where one existed; a second one has appeared
\* since, and the model and a batch were still moved to the first.
C18_Witness ==
    /\ op = "prepare_batch"
    /\ hparams.num_gpus = 2
    /\ gpus = <<gpu(0)>>
    /\ ngpus = 2
    /\ model.device = gpu(0)
    /\ Len(ret) = 1
    /\ heap[args[1][1]].device = cpu
    /\ heap[ret[1]].device = gpu(0)

\* The column of a frame with the given name.
ColumnNamed(df, name) == df[CHOOSE j \in 1..Len(df) : df[j].name = name]

\* C14: get_dummies with dummy_na=True replaces a categorical RoofType
\* column holding "Slate" or nothing by exactly two indicator columns,
\* RoofType_Slate and RoofType_nan; in every row one of them is 1 and the
\* other 0, and RoofType_Slate is 1 exactly on the rows that held "Slate".
C14_DummyRowsSumToOne ==
    (op = "get_dummies" /\ IsObject(ColumnNamed(args[1], <<"RoofType">>))) =>
        LET before == ColumnNamed(args[1], <<"RoofType">>).cells
            derived == {j \in 1..Len(inputs) :
                           Head(inputs[j].name) = "RoofType"}
            slate == ColumnNamed(inputs, <<"RoofType", "Slate">>).cells
            nan == ColumnNamed(inputs, <<"RoofType", "nan">>).cells
        IN  /\ {inputs[j].name : j \in derived}
                   = {<<"RoofType", "Slate">>, <<"RoofType", "nan">>}
            /\ Cardinality(derived) = 2
            /\ Len(slate) = Len(before) /\ Len(nan) = Len(before)
            /\ \A i \in 1..Len(before) :
                   /\ {slate[i], nan[i]} = {Number(0), Number(1)}
                   /\ RatAdd(slate[i], nan[i]) = Number(1)
                   /\ (slate[i] = Number(1)) <=> (before[i] = <<"Slate">>)

\* The notebook's column: missing, missing, Slate, missing.
C14_Witness ==
    /\ op = "get_dummies"
    /\ ColumnNamed(args[1], <<"RoofType">>).cells
           = <<NaN, NaN, <<"Slate">>, NaN>>
    /\ ColumnNamed(inputs, <<"RoofType", "Slate">>).cells
           = <<Number(0), Number(0), Number(1), Number(0)>>
    /\ ColumnNamed(inputs, <<"RoofType", "nan">>).cells
           = <<Number(1), Number(1), Number(0), Number(1)>>

\* The mean of a column none of whose cells is missing.
MeanOfAll(cells) == RatDiv(SumRat(cells), Len(cells))

\* C15: after inputs.fillna(inputs.mean()), every numeric column that had
\* at least one value present has no missing cell left, and its mean over
\* all rows equals the mean of the values present before.
C15_MeanUnchanged ==
    op = "fillna" =>
        \A j \in 1..Len(args[1]) :
            LET before == args[1][j].cells
                after == inputs[j].cells
                present == SelectSeq(before, IsNumber)
            IN  present # <<>> =>
                    /\ \A i \in 1..Len(after) : IsNumber(after[i])
                    /\ MeanOfAll(after) = MeanOfAll(present)

\* Rooms 2, 2, 4 and one missing: the mean 8/3 is filled in.
C15_Witness ==
    /\ op = "fillna"
    /\ args[1][1].cells = <<Number(2), Number(2), NaN, Number(4)>>
    /\ inputs[1].cells = <<Number(2), Number(2), <<8, 3>>, Number(4)>>

\* The number of examples of validation batch i and the number of them
\* predicted correctly.
SizeOf(i) == Len(args[2][i][2].flat)
HitsOf(i) ==
    Cardinality({k \in 1..SizeOf(i) : Correct(args[2][i][1], args[2][i][2], k)})

RECURSIVE SumTo(_, _, _)
SumTo(i, hits, sizes) ==
    IF i = 0 THEN <<hits, sizes>>
    ELSE SumTo(i - 1, hits + HitsOf(i), sizes + SizeOf(i))

\* C19: the validation accuracy drawn at the end of a pass is the unweighted
\* mean of the per-batch accuracies; when all batches have one size it equals
\* correct predictions / examples over the whole validation data; a shorter
\* last batch counts like any other batch.
C19_UnweightedMean ==
    (op = "validation_step" /\ board.points = <<>>) =>
        LET nb == Len(args[2])
            reported == board.line[Len(board.line)]
            perBatch == [i \in 1..nb |-> Normal(<<HitsOf(i), SizeOf(i)>>)]
            whole == SumTo(nb, 0, 0)
        IN  /\ board.line # <<>>
            /\ reported = RatDiv(SumRat(perBatch), nb)
            /\ (\A i \in 1..nb : SizeOf(i) = SizeOf(1)) =>
                   reported = Normal(whole)

\* Two examples both right, then a last batch of one example, wrong: 1/2
\* is drawn, the mean of 1 and 0 (2 of the 3 examples are right).
C19_Witness ==
    /\ op = "validation_step"
    /\ board.points = <<>>
    /\ Len(args[2]) = 2
    /\ SizeOf(1) = 2 /\ HitsOf(1) = 2
    /\ SizeOf(2) = 1 /\ HitsOf(2) = 0
    /\ board.line = <<<<1, 2>>>>

\* C21 as stated: whatever the trainer's device list and wherever the model
\* and the batch elements were, after prepare_model and prepare_batch the
\* model and every element of the returned batch are on one device.
C21_CommonDeviceAlways ==
    (op = "prepare_batch" /\ model.trainer) =>
        \A k \in 1..Len(ret) : heap[ret[k]].device = model.device

\* C21, amended: with a non-empty device list, after prepare_model and
\* prepare_batch the model and every element of the returned batch are on
\* gpus[0]; with an empty list the returned batch is the batch given, so
\* its elements are where the caller put them.
C21_CommonDevice ==
    (op = "prepare_batch" /\ model.trainer) =>
        IF gpus # <<>>
        THEN /\ model.device = gpus[1]
             /\ \A k \in 1..Len(ret) : heap[ret[k]].device = gpus[1]
             /\ \A j, k \in 1..Len(ret) :
                    same_device(heap, ret[j], ret[k])
        ELSE ret = args[1]

\* A model placed on the CPU and a batch of a CPU and a GPU element, both
\* prepared by a trainer with one GPU.
C21_Witness ==
    /\ op = "prepare_batch"
    /\ model.trainer
    /\ gpus = <<gpu(0)>>
    /\ Len(args[1]) = 2
    /\ heap[args[1][1]].device = cpu
    /\ heap[args[1][2]].device = gpu(0)
    /\ model.device = gpu(0)
    /\ \A k \in 1..2 : heap[ret[k]].device = gpu(0)

\* C22: the batch prepare_batch returns has as many elements as the batch
\* given, and its k-th element has the content of the k-th element given,
\* for every k; only the device may differ.
C22_SameLengthSameContent ==
    [][op' = "prepare_batch" =>
        /\ ~raised'
        /\ Len(ret') = Len(args'[1])
        /\ \A k \in 1..Len(args'[1]) :
               heap'[ret'[k]].data = heap[args'[1][k]].data]_vars

\* Two elements of different content, the first of them moved.
C22_Witness ==
    /\ op = "prepare_batch"
    /\ Len(args[1]) = 2
    /\ heap[args[1][1]].data = 1
    /\ heap[args[1][2]].data = 2
    /\ heap[ret[1]].device # heap[args[1][1]].device
    /\ heap[ret[1]].data = 1
    /\ heap[ret[2]].data = 2

\* The elements of a batch are where this trainer's prepare_batch leaves
\* them: on gpus[0], or anywhere if the trainer has no device.
Prepared(batch) ==
    gpus = <<>> \/ \A k \in 1..Len(batch) : heap[batch[k]].device = gpus[1]

\* C23: preparing again, with the same trainer, the batch that
\* prepare_batch returned yields element for element the identical tensors
\* and allocates no copy; so does preparing any batch whose elements are
\* already where the trainer puts them.
C23_PrepareAgainIdentical ==
    [][/\ (op = "prepare_batch" /\ op' = "prepare_batch" /\ args'[1] = ret) =>
            /\ Len(ret') = Len(ret)
            /\ \A k \in 1..Len(ret) : ret'[k] = ret[k]
            /\ heap' = heap
       /\ (op' = "prepare_batch" /\ Prepared(args'[1])) =>
            /\ ret' = args'[1]
            /\ heap' = heap
      ]_vars

\* A CPU tensor and its copy on the trainer's GPU; the batch holding the
\* copy was prepared again and came back as it was.
C23_Witness ==
    /\ op = "prepare_batch"
    /\ gpus = <<gpu(0)>>
    /\ Len(heap) = 2
    /\ heap[1].device = cpu
    /\ heap[2].device = gpu(0)
    /\ args[1] = <<2>>
    /\ ret = <<2>>

\* C24: for flat hard labels, one-column scores and several-column scores
\* alike, and labels of the same length, Classifier.accuracy with
\* averaged=True returns the value Classification.accuracy returns.
C24_ImplementationsAgree ==
    (/\ op = "Classifier.accuracy"
     /\ args[3]
     /\ NumPredictions(args[1]) = Len(args[2].flat)) =>
        LET other == Classification_accuracy(args[1], args[2])
        IN  /\ raised = other.raised
            /\ ~raised => ret.num * other.value.den = other.value.num * ret.den

\* C25: after dummy-encoding and mean imputation of a table whose numeric
\* columns each hold at least one value, no cell of inputs is missing;
\* imputation changed only the cells that were missing: a cell that held a
\* value holds it still, and the indicator columns are as the encoding
\* left them.
C25_OnlyMissingFilled ==
    (/\ op = "fillna"
     /\ \A j \in 1..Len(args[1]) :
            \E i \in 1..Len(args[1][j].cells) : IsNumber(args[1][j].cells[i])) =>
        /\ Len(inputs) = Len(args[1])
        /\ \A j \in 1..Len(inputs) :
               LET before == args[1][j]
                   after == inputs[j]
               IN  /\ after.name = before.name
                   /\ Len(after.cells) = Len(before.cells)
                   /\ \A i \in 1..Len(after.cells) :
                          /\ IsNumber(after.cells[i])
                          /\ IsNumber(before.cells[i]) =>
                                 after.cells[i] = before.cells[i]
                   /\ Len(before.name) = 2 => after.cells = before.cells

\* The notebook's table: rooms NaN, 2, 4, NaN and one Slate roof.
C25_Witness ==
    /\ op = "fillna"
    /\ Len(inputs) = 3
    /\ args[1][1].cells = <<NaN, Number(2), Number(4), NaN>>
    /\ inputs[1].cells = <<Number(3), Number(2), Number(4), Number(3)>>
    /\ inputs[2].name = <<"RoofType", "Slate">>
    /\ inputs[2].cells = <<Number(0), Number(0), Number(1), Number(0)>>
    /\ inputs[3].cells = <<Number(1), Number(1), Number(0), Number(1)>>
====
